---- MODULE Spec2Model ----
(***************************************************************************)
(* Input controls of input-aspects: the aspect cache of a control, the     *)
(* bidirectional value conversion of InConverted, the lifecycle (done) of  *)
(* controls and aspects, and the status flags of InStatus.                 *)
(*                                                                         *)
(* Every handler runs synchronously to completion: a write to a control    *)
(* and the whole cascade of receivers it triggers is one action.           *)
(***************************************************************************)
EXTENDS Integers, Sequences, FiniteSets, TLC

\* ------------------------------------------------------------------ bounds

\* Values of a control are 0..MaxVal and undefined.
MaxVal == 2
\* Writes stop once a revision reaches MaxRev.
MaxRev == 2
\* Depth allowed to a cascade of nested sends before it is reported.
MaxDepth == 12
\* Aspect lookups stop once a (control, key) pair was applied MaxApply times.
MaxApply == 2

\* ------------------------------------------------------------- value types

\* JavaScript `undefined`: a value any control may hold, and the content of
\* the empty `backward` slot.
Undef == -1

Vals == (0 .. MaxVal) \cup {Undef}

\* Controls: a plain value control and the controls converted from it,
\* directly (1 from 0) and through a chain (2 from 1).
Root == 0
Converted == {1, 2}
Controls == {Root} \cup Converted

\* The `src` of a converted control.
SrcOf(c) == c - 1

\* Whether `a` is `c` or a control `c` is converted from.
RECURSIVE UpstreamOf(_, _)
UpstreamOf(a, c) == IF a = c THEN TRUE
                    ELSE IF c = Root THEN FALSE
                    ELSE UpstreamOf(a, SrcOf(c))

Reasons == {"R1", "R2"}

\* An event supply: open, or cut off with a reason.
OpenSupply == [off |-> FALSE, reason |-> "none"]
CutSupply(r) == [off |-> TRUE, reason |-> r]

\* The value of an event that was never sent.
Never == -2

\* What a converter returns for a value it throws on.
Throws == -3

\* Converters a conversion is built with: `set` and `get` are the caller's
\* functions, so they are inputs. The first pair is x + 1 / y - 1, exact
\* inverses; the others are not inverses of each other.
Inc(x) == IF x = Undef THEN 0 ELSE (x + 1) % (MaxVal + 1)
Dec(y) == IF y = Undef THEN Undef ELSE (y + MaxVal) % (MaxVal + 1)
Clamp(x) == IF x = Undef THEN Undef ELSE IF x > 1 THEN 1 ELSE x
Blank(y) == IF y = 0 THEN Undef ELSE y

ConverterSet ==
    { [set |-> [x \in Vals |-> Inc(x)], get |-> [y \in Vals |-> Dec(y)]],
      [set |-> [x \in Vals |-> Clamp(x)], get |-> [y \in Vals |-> y]],
      [set |-> [x \in Vals |-> x], get |-> [y \in Vals |-> Blank(y)]] }

NoConverters == [set |-> [x \in Vals |-> x], get |-> [y \in Vals |-> y]]

\* Converters of which `set` or `get` throws on the value 1, and converters
\* that never throw.
ThrowingConverters ==
    { [set |-> [x \in Vals |-> IF x = 1 THEN Throws ELSE x], get |-> [y \in Vals |-> y]],
      [set |-> [x \in Vals |-> x], get |-> [y \in Vals |-> IF y = 1 THEN Throws ELSE y]],
      NoConverters }

\* ------------------------------------------------------------------- state

VARIABLES
    created,    \* created[c]: the control exists
    conv,       \* conv[c]: the converters of converted control c
    it,         \* it[c]: the value of c (`_it.it[0]` of a converted control)
    rev,        \* rev[c]: the revision stored with the value (`_it.it[1]`)
    lastRev,    \* lastRev[c]: `lastRev` of the InConverted constructor
    backward,   \* backward[c]: the `backward` slot of the constructor
    itSup,      \* itSup[c]: supply of the value tracker `_it`
    onSup,      \* onSup[c]: supply of the change stream `on`, as its receivers see it
    last        \* the last operation and what it did (observation only)

convVars == <<created, conv, it, rev, lastRev, backward, itSup, onSup, last>>

VARIABLES
    aspects,    \* aspects[c][k]: the `_aspects` map of control c at key k
    applyCount, \* applyCount[c][k]: how often the application step ran (observation only)
    firstGot,   \* firstGot[c][k]: what the first c.aspect(k) returned (observation only)
    got         \* the last c.aspect(k) call and what it returned (observation only)

aspectVars == <<aspects, applyCount, firstGot, got>>

VARIABLES
    flags,      \* flags[c]: the value of `_flags` of the InStatus of control c
    flagsSup,   \* flagsSup[c]: supply of `_flags`, the stream InStatus reads from
    focus,      \* focus[e]: the value of the InFocus of input element e
    focusSup,   \* focusSup[e]: supply of the InFocus of e
    input,      \* input[e]: whether the latest input of e carries an event
    dataSup,    \* dataSup[c]: supply of the InData of control c
    children,   \* the controls in the container's current snapshot
    ctlSup,     \* ctlSup[c]: supply of control c
    lastS       \* the last status operation and what it did (observation only)

statusVars == <<flags, flagsSup, focus, focusSup, input, dataSup, children, ctlSup, lastS>>

VARIABLES
    mode,       \* the value of the InMode of the plain control
    data        \* what the InData of the plain control sent (observation only)

dataVars == <<mode, data>>

VARIABLES
    rcv,        \* rcv[r]: receiver r of a control's `on` or `read`, and what it got
    elem        \* the form element control made for the plain control as its form

eventVars == <<rcv, elem>>

VARIABLES
    active,     \* the input element that is `activeElement` of the document
    made,       \* made[e]: the InFocus of input element e is constructed
    lastF       \* the last focus operation and what it called (observation only)

domVars == <<active, made, lastF>>

vars == <<convVars, aspectVars, statusVars, dataVars, eventVars, domVars>>

ZeroCount == [c \in Controls |-> 0]

\* What one operation did: how often get/set were called for each control,
\* how often a converted control called its source's setter (and with what),
\* how often the stored value of each control was written, and how many
\* (newValue, oldValue) pairs each change stream sent, and the last of them.
NoTrace == [gets |-> ZeroCount, sets |-> ZeroCount, srcw |-> ZeroCount,
            srcArg |-> [c \in Controls |-> Undef],
            upds |-> ZeroCount, sent |-> ZeroCount, throws |-> 0,
            sentNew |-> [c \in Controls |-> Never],
            sentOld |-> [c \in Controls |-> Never]]

\* The working state of a cascade.
Cascade == [it |-> it, rev |-> rev, lastRev |-> lastRev, backward |-> backward,
            depth |-> 0, overflow |-> FALSE, thrown |-> FALSE, tr |-> NoTrace]

\* ---------------------------------------------------------- value cascade

RECURSIVE SetIt(_, _, _)
RECURSIVE ItWrite(_, _, _, _)
RECURSIVE Forward(_, _, _)
RECURSIVE SendOn(_, _, _, _)
RECURSIVE SendToEach(_, _, _)

\* The converted controls subscribed to the change stream of c, in order.
Subscribers(c) == {k \in Converted : created[k] /\ SrcOf(k) = c}

\* `value !== backward`: the source receiver converts forward unless the
\* value is the one in the `backward` slot.
NotInFlightIgnored(value, slot) == TRUE
NotInFlight(value, slot) == value # slot

\* `newValue !== oldValue`: the stored pair was replaced by one with another
\* value, not only another revision.
ValueSame(newValue, oldValue) == TRUE
ValueChanged(newValue, oldValue) == newValue # oldValue

\* `rev !== lastRev`: the update was not produced by the source receiver.
ExternalRev(r, lr) == r # lr

\* An exception thrown by a converter: it leaves the cascade through every
\* caller, none of which catches it.
Thrown(st) == [st EXCEPT !.thrown = TRUE, !.tr.throws = @ + 1]

\* The source receiver of converted control k: `src.on(value => ...)`. The
\* tuple of the write evaluates `set(value)` before `++lastRev`.
ForwardSameRev(k, value, st) ==
    IF NotInFlight(value, st.backward[k])
    THEN IF conv[k].set[value] = Throws
         THEN Thrown([st EXCEPT !.tr.sets[k] = @ + 1])
         ELSE ItWrite(k, conv[k].set[value], st.lastRev[k],
                      [st EXCEPT !.tr.sets[k] = @ + 1])
    ELSE st
Forward(k, value, st) ==
    IF NotInFlight(value, st.backward[k])
    THEN IF conv[k].set[value] = Throws
         THEN Thrown([st EXCEPT !.tr.sets[k] = @ + 1])
         ELSE LET r == st.lastRev[k] + 1
                  st1 == [st EXCEPT !.lastRev[k] = r, !.tr.sets[k] = @ + 1]
              IN  ItWrite(k, conv[k].set[value], r, st1)
    ELSE st

\* Delivery of one value of c's change stream to the receivers in ks.
SendToEach(ks, value, st) ==
    IF ks = {} \/ st.thrown THEN st
    ELSE LET k == CHOOSE x \in ks : \A y \in ks : x <= y
         IN  SendToEach(ks \ {k}, value, Forward(k, value, st))

\* `on.send(newValue, oldValue)` of control c.
SendOnSwapped(c, newValue, oldValue, st) ==
    IF onSup[c].off THEN st
    ELSE SendToEach(Subscribers(c), newValue,
                    [st EXCEPT !.tr.sent[c] = @ + 1,
                               !.tr.sentNew[c] = oldValue,
                               !.tr.sentOld[c] = newValue])
SendOn(c, newValue, oldValue, st) ==
    IF onSup[c].off THEN st
    ELSE SendToEach(Subscribers(c), newValue,
                    [st EXCEPT !.tr.sent[c] = @ + 1,
                               !.tr.sentNew[c] = newValue,
                               !.tr.sentOld[c] = oldValue])

\* `finally { backward = undefined; }` of converted control c.
Released(c, st) == [st EXCEPT !.backward[c] = Undef]

\* `this._it.it = [newValue, r]` of converted control c, with the two
\* receivers of `_it.on` the constructor registers.
ItWrite(c, newValue, r, st) ==
    LET oldValue == st.it[c]
        st1 == [st EXCEPT !.it[c] = newValue, !.rev[c] = r,
                          !.tr.upds[c] = @ + 1, !.depth = @ + 1]
    IN  IF st.depth >= MaxDepth THEN [st EXCEPT !.overflow = TRUE]
        ELSE IF itSup[c].off THEN st1
        ELSE LET st2 == IF ValueChanged(newValue, oldValue)
                        THEN SendOn(c, newValue, oldValue, st1)
                        ELSE st1
             IN  IF st2.thrown THEN st2
                 ELSE IF ExternalRev(r, st2.lastRev[c])
                 THEN LET g == conv[c].get[newValue]
                          st3 == [st2 EXCEPT !.lastRev[c] = r,
                                             !.backward[c] = g,
                                             !.tr.gets[c] = @ + 1,
                                             !.tr.srcw[c] = @ + 1,
                                             !.tr.srcArg[c] = g]
                      IN  IF g = Throws
                          THEN Thrown([st2 EXCEPT !.lastRev[c] = r,
                                                  !.tr.gets[c] = @ + 1])
                          ELSE Released(c, SetIt(SrcOf(c), g, st3))
                 ELSE st2

\* `c.it = value`: the value setter of control c.
SetItAnyway(c, value, st) ==
    IF c = Root
    THEN SendOn(c, value, st.it[c],
                [st EXCEPT !.it[c] = value, !.tr.upds[c] = @ + 1])
    ELSE ItWrite(c, value, st.rev[c] + 1, st)
SetIt(c, value, st) ==
    IF value = st.it[c] THEN st
    ELSE IF c = Root
         THEN SendOn(c, value, st.it[c],
                     [st EXCEPT !.it[c] = value, !.tr.upds[c] = @ + 1])
         ELSE ItWrite(c, value, st.rev[c] + 1, st)

\* --------------------------------------------------------------- lifecycle

RECURSIVE DoneFrom(_, _, _)

\* `done(reason)` of control c: cuts off `_it`, which ends `on`, which in
\* turn ends every control converted from c (`whenDone(reason =>
\* this.done(reason))`). A supply already cut off keeps its reason.
DoneOnly(c, reason, sup) == IF sup[c].off THEN sup
                            ELSE [sup EXCEPT ![c] = CutSupply(reason)]
DoneUpstream(c, reason, sup) ==
    [k \in Controls |-> IF sup[k].off \/ ~created[k] THEN sup[k] ELSE CutSupply(reason)]
DoneNoReason(c, reason, sup) ==
    [k \in Controls |-> IF created[k] /\ UpstreamOf(c, k) /\ ~sup[k].off
                        THEN CutSupply("none") ELSE sup[k]]
DoneFrom(c, reason, sup) ==
    IF sup[c].off THEN sup
    ELSE LET s1 == [sup EXCEPT ![c] = CutSupply(reason)]
         IN  IF Subscribers(c) = {} THEN s1
             ELSE DoneFrom(CHOOSE k \in Subscribers(c) : TRUE, reason, s1)


\* ------------------------------------------------------------ aspect cache

AspectKeys == {"InFocus", "InStatus"}

\* An aspect instance is known by the control and key it was built for and
\* by the application that built it; the absent (null) instance is one value.
NullInstance == [owner |-> Undef, key |-> "null", n |-> 0]
NewInstance(c, k, n) == [owner |-> c, key |-> k, n |-> n]

NoEntry == [has |-> FALSE, instance |-> NullInstance]
Entry(applied) == [has |-> TRUE, instance |-> applied.instance]

\* How one control resolves a key it has not applied yet:
\*   "custom"  - the conversion's applyAspect supplies the aspect;
\*   "same"    - the source's applied aspect converts to its own instance;
\*   "new"     - the source's applied aspect converts to a new instance;
\*   "applyTo" - everything before declines and the key's applyTo builds one;
\*   "absent"  - as "applyTo", for a control without element.
Resolutions == {"custom", "same", "new", "applyTo", "absent"}
Choices == {ch \in [Controls -> Resolutions] : ch[Root] \in {"applyTo", "absent"}}

RECURSIVE AspectOf(_, _, _, _)
RECURSIVE ApplyTo(_, _, _, _)
RECURSIVE ApplyAspect(_, _, _, _)
RECURSIVE ConvertAspect(_, _, _, _)
RECURSIVE Hook(_, _, _, _)

\* Whether the converters of converted control c have an `applyAspect`.
Supplied(c) == "applyAspect" \in DOMAIN conv[c] /\ conv[c].applyAspect

\* What one lookup did for each control and key it applied (observation
\* only): when `_applyAspect`, the conversion's `applyAspect`,
\* `convertAspect` and the key's `applyTo` were called, counted in calls
\* since the lookup began (0: not called), whether `_applyAspect` returned
\* an applied aspect, the call that returned the applied aspect, and the
\* instance that was stored.
NoSteps == [hook |-> 0, custom |-> 0, convert |-> 0, applyTo |-> 0,
            yield |-> FALSE, by |-> "none", stored |-> NullInstance]
NoLookupTrace == [c \in Controls |-> [k \in AspectKeys |-> NoSteps]]

\* The call of one of them for control c and key k.
Called(as, c, k, step) ==
    [as EXCEPT !.tick = @ + 1, !.tr[c][k][step] = as.tick + 1]

\* `const existing = this._aspects.get(aspect); if (existing)`: an applied
\* aspect is an object, whatever its instance is.
ExistingWithInstance(entry) == entry.has /\ entry.instance # NullInstance
Existing(entry) == entry.has

\* `this._aspects.set(aspect, applied)`.
SetNothing(cache, c, k, applied) == cache
SetAspect(cache, c, k, applied) == [cache EXCEPT ![c][k] = Entry(applied)]

\* `aspect.applyTo(control)` of the key. InStatus builds an InControlStatus,
\* whose constructor asks the control for its InFocus; InFocus is null for a
\* control without element.
ApplyTo(c, k, ch, as) ==
    IF k = "InStatus"
    THEN LET as1 == AspectOf(c, "InFocus", ch, as)
         IN  [as1 EXCEPT !.ret = [instance |-> NewInstance(c, k, as.count[c][k] + 1)]]
    ELSE IF ch[c] = "absent"
         THEN [as EXCEPT !.ret = [instance |-> NullInstance]]
         ELSE [as EXCEPT !.ret = [instance |-> NewInstance(c, k, as.count[c][k] + 1)]]

\* `convertAspect`: the key applied to the source, through the source's
\* `_aspect`, and asked to `convertTo` the converted control; it returns the
\* source's instance, a new one, or nothing.
ConvertAspect(c, k, ch, as) ==
    LET as1 == AspectOf(SrcOf(c), k, ch, Called(as, c, k, "convert"))
    IN  IF ch[c] = "same"
        THEN [as1 EXCEPT !.yield = TRUE, !.tr[c][k].by = "convert"]
        ELSE IF ch[c] = "new"
             THEN [as1 EXCEPT !.yield = TRUE, !.tr[c][k].by = "convert",
                              !.ret = [instance |-> NewInstance(c, k, as.count[c][k] + 1)]]
             ELSE [as1 EXCEPT !.yield = FALSE]

\* `_applyAspect(aspect)`: nothing for a plain control; for a converted
\* control `applyAspect.call(converters, aspect) ||
\* convertAspect.call(this, aspect)` when the converters have an
\* `applyAspect`, and `convertAspect` alone when they have none.
HookSourceFirst(c, k, ch, as) ==
    LET as1 == Called(as, c, k, "hook")
    IN  IF c = Root THEN [as1 EXCEPT !.yield = FALSE]
        ELSE LET as2 == ConvertAspect(c, k, ch, as1)
             IN  IF as2.yield \/ ~Supplied(c) THEN as2
                 ELSE IF ch[c] = "custom"
                      THEN [Called(as2, c, k, "custom") EXCEPT
                               !.yield = TRUE, !.tr[c][k].by = "custom",
                               !.ret = [instance |-> NewInstance(c, k, as.count[c][k] + 1)]]
                      ELSE [Called(as2, c, k, "custom") EXCEPT !.yield = FALSE]
Hook(c, k, ch, as) ==
    LET as1 == Called(as, c, k, "hook")
    IN  IF c = Root THEN [as1 EXCEPT !.yield = FALSE]
        ELSE IF Supplied(c)
             THEN LET as2 == Called(as1, c, k, "custom")
                  IN  IF ch[c] = "custom"
                      THEN [as2 EXCEPT
                               !.yield = TRUE, !.tr[c][k].by = "custom",
                               !.ret = [instance |-> NewInstance(c, k, as.count[c][k] + 1)]]
                      ELSE ConvertAspect(c, k, ch, as2)
             ELSE ConvertAspect(c, k, ch, as1)

\* `this._applyAspect(aspect) || aspect.applyTo(this)`.
ApplyAspectBoth(c, k, ch, as) ==
    LET as1 == Hook(c, k, ch, as)
    IN  [ApplyTo(c, k, ch, Called(as1, c, k, "applyTo")) EXCEPT
            !.tr[c][k].yield = as1.yield,
            !.ret = IF as1.yield THEN as1.ret ELSE @]
ApplyAspect(c, k, ch, as) ==
    LET as1 == Hook(c, k, ch, as)
        as2 == [as1 EXCEPT !.tr[c][k].yield = as1.yield]
    IN  IF as1.yield THEN as2
        ELSE [ApplyTo(c, k, ch, Called(as2, c, k, "applyTo")) EXCEPT
                 !.tr[c][k].by = "applyTo"]

\* `_aspect(aspect)` of control c.
AspectOf(c, k, ch, as) ==
    IF Existing(as.cache[c][k])
    THEN [as EXCEPT !.ret = [instance |-> as.cache[c][k].instance]]
    ELSE LET as1 == ApplyAspect(c, k, ch, as)
         IN  [as1 EXCEPT !.cache = SetAspect(as1.cache, c, k, as1.ret),
                         !.count[c][k] = @ + 1,
                         !.tr[c][k].stored = as1.ret.instance]

\* `c.aspect(key)` by a user of control c.
Lookup(c, k, ch) ==
    /\ created[c]
    /\ \A x \in Controls, y \in AspectKeys : applyCount[x][y] < MaxApply
    /\ \A x \in Converted : ch[x] = "custom" => Supplied(x)
    /\ LET as == AspectOf(c, k, ch, [cache |-> aspects, count |-> applyCount,
                                     ret |-> [instance |-> NullInstance],
                                     yield |-> FALSE, tick |-> 0,
                                     tr |-> NoLookupTrace])
       IN  /\ aspects' = as.cache
           /\ applyCount' = as.count
           /\ got' = [ctl |-> c, key |-> k, instance |-> as.ret.instance,
                      tr |-> as.tr]
           /\ firstGot' = IF firstGot[c][k].has THEN firstGot
                          ELSE [firstGot EXCEPT ![c][k] = Entry(as.ret)]

\* ------------------------------------------------------------ status flags

\* Controls with an InStatus: two input elements, a container of input
\* elements, and a control that is neither.
Inputs == {"in1", "in2"}
Box == "box"
Plain == "plain"
StatusControls == Inputs \cup {Box, Plain}

\* The controls a container's snapshot may hold.
Members == Inputs \cup {Plain}

Flags == [hasFocus : BOOLEAN, touched : BOOLEAN, edited : BOOLEAN]

defaultFlags == [hasFocus |-> FALSE, touched |-> FALSE, edited |-> FALSE]

\* updateFlags(flags, hasFocus, edited).
updateFlags(fl, hasFocus, edited) ==
    LET f1 == IF hasFocus
              THEN [fl EXCEPT !.hasFocus = hasFocus, !.touched = TRUE]
              ELSE [fl EXCEPT !.hasFocus = hasFocus]
    IN  IF edited THEN [f1 EXCEPT !.edited = edited, !.touched = TRUE] ELSE f1

\* combineFlags(...flags): the fold over the statuses of the controls in cs.
RECURSIVE combineFlags(_, _)
combineFlags(cs, fl) ==
    IF cs = {} THEN defaultFlags
    ELSE LET c == CHOOSE x \in cs : TRUE
             r == combineFlags(cs \ {c}, fl)
             r1 == IF fl[c].touched THEN [r EXCEPT !.touched = TRUE] ELSE r
             r2 == IF fl[c].hasFocus
                   THEN [r1 EXCEPT !.hasFocus = TRUE, !.touched = TRUE] ELSE r1
         IN  IF fl[c].edited
             THEN [r2 EXCEPT !.edited = TRUE, !.touched = TRUE] ELSE r2

\* The flags markTouched(touched) writes to `_flags`; the flags as they are
\* when it writes nothing.
markTouchedClears(fl, touched) ==
    IF ~touched
    THEN IF fl.touched THEN [fl EXCEPT !.touched = FALSE, !.edited = FALSE] ELSE fl
    ELSE IF ~fl.touched THEN [fl EXCEPT !.touched = touched] ELSE fl
markTouchedKeepsEdited(fl, touched) ==
    IF ~touched
    THEN IF fl.touched THEN [fl EXCEPT !.touched = fl.hasFocus] ELSE fl
    ELSE IF ~fl.touched THEN [fl EXCEPT !.touched = touched] ELSE fl
markTouched(fl, touched) ==
    IF ~touched
    THEN IF fl.touched
         THEN [fl EXCEPT !.touched = fl.hasFocus, !.edited = FALSE]
         ELSE fl
    ELSE IF ~fl.touched THEN [fl EXCEPT !.touched = touched] ELSE fl

\* Whether markTouched(touched) writes to `_flags`.
markTouchedWrites(fl, touched) == IF ~touched THEN fl.touched ELSE ~fl.touched

\* The flags markEdited(edited) writes to `_flags`.
markEditedOnly(fl, edited) ==
    IF edited
    THEN IF ~fl.edited THEN [fl EXCEPT !.edited = edited] ELSE fl
    ELSE IF fl.edited THEN [fl EXCEPT !.edited = edited] ELSE fl
markEditedResets(fl, edited) ==
    IF edited
    THEN IF ~fl.edited THEN [fl EXCEPT !.touched = TRUE, !.edited = edited] ELSE fl
    ELSE IF fl.edited THEN [fl EXCEPT !.touched = fl.hasFocus, !.edited = edited] ELSE fl
markEdited(fl, edited) ==
    IF edited
    THEN IF ~fl.edited THEN [fl EXCEPT !.touched = TRUE, !.edited = edited] ELSE fl
    ELSE IF fl.edited THEN [fl EXCEPT !.edited = edited] ELSE fl

\* Whether markEdited(edited) writes to `_flags`.
markEditedWrites(fl, edited) == IF edited THEN ~fl.edited ELSE fl.edited

\* `this._flags.by(flags)` of a container: each time the status of a control
\* of the snapshot sends flags, and each time the snapshot changes, `_flags`
\* takes the flags combined from the snapshot, while the container is open.
RecombinedWithStale(fl, cs) ==
    IF ctlSup[Box].off THEN fl
    ELSE [fl EXCEPT ![Box] = combineFlags(cs \cup children, fl)]
Recombined(fl, cs) ==
    IF ctlSup[Box].off THEN fl
    ELSE [fl EXCEPT ![Box] = combineFlags(cs, fl)]

\* The flags of all controls after `_flags` of c was written.
FlagsWritten(c, f) ==
    LET fl == [flags EXCEPT ![c] = f]
    IN  IF c \in children THEN Recombined(fl, children) ELSE fl

\* What the last status operation was: the control, the argument of a
\* mutator, the flags of the control before it, the snapshot a new snapshot
\* replaced, whether it wrote `_flags`, and whether it repeats the operation
\* before it (observation only).
QuietS(op, c) ==
    [op |-> op, ctl |-> c, arg |-> FALSE, pre |-> defaultFlags, was |-> {},
     wrote |-> FALSE, again |-> FALSE]

Repeats(op, c, arg) == lastS.op = op /\ lastS.ctl = c /\ lastS.arg = arg

\* A 'focus' or 'blur' event of input element e, or `focus.it = hasFocus`:
\* the InFocus tracker takes the value, and `_flags` follows through
\* elementFlags.
FocusChange(e, hasFocus) ==
    /\ ~ctlSup[e].off
    /\ focus[e] # hasFocus
    /\ focus' = [focus EXCEPT ![e] = hasFocus]
    /\ flags' = FlagsWritten(e, updateFlags(flags[e], hasFocus, input[e]))
    /\ lastS' = [QuietS(IF hasFocus THEN "focus" ELSE "blur", e) EXCEPT !.wrote = TRUE]
    /\ UNCHANGED <<flagsSup, focusSup, input, dataSup, children, ctlSup>>

\* A new input of element e, typed by the user (with an event) or set by the
\* program (without one).
Input(e, event) ==
    /\ ~ctlSup[e].off
    /\ input' = [input EXCEPT ![e] = event]
    /\ flags' = FlagsWritten(e, updateFlags(flags[e], focus[e], event))
    /\ lastS' = [QuietS("input", e) EXCEPT !.wrote = TRUE]
    /\ UNCHANGED <<flagsSup, focus, focusSup, dataSup, children, ctlSup>>

\* `status.markTouched(touched)` on control c.
MarkTouched(c, touched) ==
    /\ flags' = IF markTouchedWrites(flags[c], touched)
                THEN FlagsWritten(c, markTouched(flags[c], touched))
                ELSE flags
    /\ lastS' = [QuietS("markTouched", c) EXCEPT
                     !.arg = touched,
                     !.pre = flags[c],
                     !.wrote = markTouchedWrites(flags[c], touched),
                     !.again = Repeats("markTouched", c, touched)]
    /\ UNCHANGED <<flagsSup, focus, focusSup, input, dataSup, children, ctlSup>>

\* `status.markEdited(edited)` on control c.
MarkEdited(c, edited) ==
    /\ flags' = IF markEditedWrites(flags[c], edited)
                THEN FlagsWritten(c, markEdited(flags[c], edited))
                ELSE flags
    /\ lastS' = [QuietS("markEdited", c) EXCEPT
                     !.arg = edited,
                     !.pre = flags[c],
                     !.wrote = markEditedWrites(flags[c], edited),
                     !.again = Repeats("markEdited", c, edited)]
    /\ UNCHANGED <<flagsSup, focus, focusSup, input, dataSup, children, ctlSup>>

\* The container's snapshot becomes cs.
SetChildren(cs) ==
    /\ ~ctlSup[Box].off
    /\ cs # children
    /\ children' = cs
    /\ flags' = Recombined(flags, cs)
    /\ lastS' = [QuietS("children", Box) EXCEPT !.was = children, !.wrote = TRUE]
    /\ UNCHANGED <<flagsSup, focus, focusSup, input, dataSup, ctlSup>>

\* A supply that needs another one is cut off with the reason of that one.
CutWith(sup, reason) == IF sup.off THEN sup ELSE CutSupply(reason)

\* `c.done(reason)` on a control with its aspects applied: InFocus needs the
\* element control and InData is combined from the control's values, so both
\* end with it; nothing ends `_flags` of InStatus.
DoneControl(c, reason) ==
    /\ ~ctlSup[c].off
    /\ ctlSup' = [ctlSup EXCEPT ![c] = CutSupply(reason)]
    /\ focusSup' = [e \in Inputs |->
                       IF e = c THEN CutWith(focusSup[e], reason) ELSE focusSup[e]]
    /\ dataSup' = [dataSup EXCEPT ![c] = CutWith(@, reason)]
    /\ lastS' = QuietS("done", c)
    /\ UNCHANGED <<flags, flagsSup, focus, input, children>>

\* ------------------------------------------------------------ input focus

\* No input element has the focus.
NoElementActive == "none"

\* What one focus operation did (observation only): the calls of
\* `element.focus()` and `element.blur()` per element, the runs of the
\* receiver of each InFocus, those of them begun while an earlier run for
\* the same element had not returned, and the last event each element got.
NoCalls == [e \in Inputs |-> 0]
FocusCascade ==
    [focus |-> focus, active |-> active, ok |-> TRUE, busy |-> {},
     focusCalls |-> NoCalls, blurCalls |-> NoCalls, runs |-> NoCalls,
     recurrent |-> NoCalls, event |-> [e \in Inputs |-> "none"],
     depth |-> 0, overflow |-> FALSE]

RECURSIVE SetFocus(_, _, _)
RECURSIVE Receive(_, _, _)
RECURSIVE Dispatch(_, _, _)
RECURSIVE ElementFocus(_, _)
RECURSIVE ElementBlur(_, _)

\* The document moves the focus to element e: the element that had it gets
\* a 'blur' event, then e a 'focus' event.
TakeFocus(e, fs) ==
    LET o == fs.active
        fs1 == IF o \in Inputs
               THEN Dispatch(o, "blur", [fs EXCEPT !.active = NoElementActive])
               ELSE fs
    IN  Dispatch(e, "focus", [fs1 EXCEPT !.active = e])

\* The document takes the focus from element e, which gets a 'blur' event.
LoseFocus(e, fs) == Dispatch(e, "blur", [fs EXCEPT !.active = NoElementActive])

\* `element.focus()`: nothing happens when the element has the focus
\* already or cannot take it.
ElementFocus(e, fs) ==
    LET fs1 == [fs EXCEPT !.focusCalls[e] = @ + 1]
    IN  IF fs.active = e \/ ~fs.ok THEN fs1 ELSE TakeFocus(e, fs1)

\* `element.blur()`: nothing happens when the element has no focus.
ElementBlur(e, fs) ==
    LET fs1 == [fs EXCEPT !.blurCalls[e] = @ + 1]
    IN  IF fs.active = e THEN LoseFocus(e, fs1) ELSE fs1

\* The receiver the InFocus of element e registers on itself:
\* `ctx.onRecurrent(noop)`, then `element.focus()` or `element.blur()`. An
\* event sent while it runs goes to `noop`.
ReceiveSwapped(e, newValue, fs) ==
    LET fs1 == [fs EXCEPT !.runs[e] = @ + 1, !.busy = @ \cup {e}]
        fs2 == IF newValue THEN ElementBlur(e, fs1) ELSE ElementFocus(e, fs1)
    IN  [fs2 EXCEPT !.busy = fs.busy]
Receive(e, newValue, fs) ==
    IF e \in fs.busy THEN [fs EXCEPT !.recurrent[e] = @ + 1]
    ELSE LET fs1 == [fs EXCEPT !.runs[e] = @ + 1, !.busy = @ \cup {e}]
             fs2 == IF newValue THEN ElementFocus(e, fs1) ELSE ElementBlur(e, fs1)
         IN  [fs2 EXCEPT !.busy = fs.busy]

\* `this._it.it = value` of the InFocus of element e: the tracker sends a
\* value other than the one it holds.
SetFocus(e, value, fs) ==
    IF fs.depth >= MaxDepth THEN [fs EXCEPT !.overflow = TRUE]
    ELSE IF value = fs.focus[e] THEN fs
    ELSE Receive(e, value, [fs EXCEPT !.focus[e] = value, !.depth = @ + 1])

\* A 'focus' or 'blur' event of element e: `events.on('focus').to(() =>
\* this._it.it = true)` and `events.on('blur').to(() => this._it.it = false)`.
Dispatch(e, type, fs) ==
    LET fs1 == [fs EXCEPT !.event[e] = type]
    IN  IF made[e] THEN SetFocus(e, type = "focus", fs1) ELSE fs1

\* The focus operation op on element e with argument arg, which left fs.
FocusDone(op, e, arg, fs) ==
    [op |-> op, ctl |-> e, arg |-> arg, pre |-> focus, wasActive |-> active,
     focusCalls |-> fs.focusCalls, blurCalls |-> fs.blurCalls,
     runs |-> fs.runs, recurrent |-> fs.recurrent, event |-> fs.event,
     ok |-> fs.ok, overflow |-> fs.overflow]

\* `new InControlFocus(inElement)` at the first lookup of InFocus on the
\* control of element e: `trackValue(owner.activeElement === element)`.
MakeFocus(e) ==
    /\ ~made[e]
    /\ made' = [made EXCEPT ![e] = TRUE]
    /\ focus' = [focus EXCEPT ![e] = (active = e)]
    /\ lastF' = FocusDone("make", e, active = e, FocusCascade)
    /\ UNCHANGED <<active, flags, flagsSup, focusSup, input, dataSup, children,
                   ctlSup, lastS>>

\* The user moves the focus to element e.
UserFocus(e) ==
    /\ active # e
    /\ LET fs == TakeFocus(e, FocusCascade)
       IN  /\ focus' = fs.focus
           /\ active' = fs.active
           /\ lastF' = FocusDone("focus", e, TRUE, fs)
    /\ UNCHANGED <<made, flags, flagsSup, focusSup, input, dataSup, children,
                   ctlSup, lastS>>

\* The user takes the focus from element e.
UserBlur(e) ==
    /\ active = e
    /\ LET fs == LoseFocus(e, FocusCascade)
       IN  /\ focus' = fs.focus
           /\ active' = fs.active
           /\ lastF' = FocusDone("blur", e, FALSE, fs)
    /\ UNCHANGED <<made, flags, flagsSup, focusSup, input, dataSup, children,
                   ctlSup, lastS>>

\* `focus.it = value` by the program on the InFocus of element e, whose
\* element can take the focus or not.
FocusWrite(e, value, ok) ==
    /\ made[e]
    /\ LET fs == SetFocus(e, value, [FocusCascade EXCEPT !.ok = ok])
       IN  /\ focus' = fs.focus
           /\ active' = fs.active
           /\ lastF' = FocusDone("write", e, value, fs)
    /\ UNCHANGED <<made, flags, flagsSup, focusSup, input, dataSup, children,
                   ctlSup, lastS>>

\* ------------------------------------------- receivers and form element

\* Receivers a user registers with `c.on(receiver)` or `c.read(receiver)` of
\* a control, each with a whenOff callback on the supply it got.
Receivers == {"r1", "r2"}
Kinds == {"on", "read"}

\* A receiver: the control and the registrar it is registered with, its
\* supply, how often its whenOff callback was called, and (observation
\* only) how many events the last operation delivered to it and the last
\* of them.
NoReceiver == [sub |-> FALSE, ctl |-> Root, kind |-> "on", sup |-> OpenSupply,
               offCalls |-> 0, n |-> 0, new |-> Never, old |-> Never]

\* The form element control: whether inFormElement made it, its supply,
\* whether its own done cut it off, and the whenOff callback a user
\* registered on its supply: how often it was called and with what reason.
NoElement == [made |-> FALSE, sup |-> OpenSupply, own |-> FALSE,
              whenOff |-> FALSE, offCalls |-> 0, offReason |-> "none"]

\* ------------------------------------------------------------- input data

\* Input modes, and whether a mode lets the control have data.
Modes == {"on", "ro", "off"}
hasData(m) == m # "off"

\* The data sent for a value under a mode: the value, or undefined.
dataAlways(value, m) == value
dataByValue(value, m) == IF hasData(m) THEN value ELSE Undef

\* The InData of the plain control after its combined sources sent once
\* more: the data it sent last and before that, the operation that made it
\* send and the one before it, and the mode before.
DataSent(op, value, m) ==
    [it |-> dataByValue(value, m), before |-> data.it,
     op |-> op, opBefore |-> data.op, modeBefore |-> mode, n |-> 1]

\* The InData after an operation that made none of its sources send.
DataQuiet(op) == [data EXCEPT !.op = op, !.opBefore = data.op,
                              !.modeBefore = mode, !.n = 0]

\* ----------------------------------------------------------------- actions

Quiet(op, c, arg) ==
    [op |-> op, ctl |-> c, arg |-> arg, reason |-> "none",
     pre |-> it, preRev |-> rev, preOff |-> [k \in Controls |-> onSup[k].off],
     overflow |-> FALSE, thrown |-> FALSE, afterThrow |-> last.thrown, tr |-> NoTrace]

Init ==
    /\ created = [c \in Controls |-> c = Root]
    /\ conv = [c \in Controls |-> NoConverters]
    /\ it \in [Controls -> {0}]
    /\ rev = ZeroCount
    /\ lastRev = ZeroCount
    /\ backward = [c \in Controls |-> Undef]
    /\ itSup = [c \in Controls |-> OpenSupply]
    /\ onSup = [c \in Controls |-> OpenSupply]
    /\ last = [op |-> "init", ctl |-> Root, arg |-> Undef, reason |-> "none",
               pre |-> it, preRev |-> rev,
               preOff |-> [k \in Controls |-> FALSE],
               overflow |-> FALSE, thrown |-> FALSE, afterThrow |-> FALSE,
               tr |-> NoTrace]
    /\ aspects = [c \in Controls |-> [k \in AspectKeys |-> NoEntry]]
    /\ applyCount = [c \in Controls |-> [k \in AspectKeys |-> 0]]
    /\ firstGot = [c \in Controls |-> [k \in AspectKeys |-> NoEntry]]
    /\ got = [ctl |-> Root, key |-> "none", instance |-> NullInstance,
              tr |-> NoLookupTrace]
    /\ focus = [e \in Inputs |-> FALSE]
    /\ input = [e \in Inputs |-> FALSE]
    /\ children = {}
    /\ flags = LET own == [c \in StatusControls |->
                              IF c \in Inputs
                              THEN updateFlags(defaultFlags, focus[c], FALSE)
                              ELSE updateFlags(defaultFlags, FALSE, FALSE)]
               IN  [own EXCEPT ![Box] = combineFlags(children, own)]
    /\ flagsSup = [c \in StatusControls |-> OpenSupply]
    /\ focusSup = [e \in Inputs |-> OpenSupply]
    /\ dataSup = [c \in StatusControls |-> OpenSupply]
    /\ ctlSup = [c \in StatusControls |-> OpenSupply]
    /\ lastS = QuietS("init", Plain)
    /\ rcv = [r \in Receivers |-> NoReceiver]
    /\ elem = NoElement
    /\ active = NoElementActive
    /\ made = [e \in Inputs |-> FALSE]
    /\ lastF = FocusDone("init", "in1", FALSE, FocusCascade)
    /\ mode = "on"
    /\ data = [it |-> dataByValue(0, "on"), before |-> Never,
               op |-> "init", opBefore |-> "init", modeBefore |-> "on", n |-> 1]

\* `src.convert(set, get)`: the InConverted constructor.
Convert(c, by) ==
    /\ c \in Converted
    /\ ~created[c]
    /\ created[SrcOf(c)]
    /\ created' = [created EXCEPT ![c] = TRUE]
    /\ conv' = [conv EXCEPT ![c] = by]
    /\ it' = [it EXCEPT ![c] = by.set[it[SrcOf(c)]]]
    /\ rev' = [rev EXCEPT ![c] = 0]
    /\ lastRev' = [lastRev EXCEPT ![c] = 0]
    /\ backward' = [backward EXCEPT ![c] = Undef]
    \* a source already done ends the new control at once
    /\ itSup' = [itSup EXCEPT ![c] = onSup[SrcOf(c)]]
    /\ onSup' = [onSup EXCEPT ![c] = onSup[SrcOf(c)]]
    /\ last' = [Quiet("convert", c, Undef) EXCEPT !.tr.sets[c] = 1]

\* `c.it = value` by a user of control c, with everything it triggers.
Written(c, value) ==
    /\ created[c]
    /\ \A k \in Controls : rev[k] < MaxRev /\ lastRev[k] < MaxRev
    /\ LET st == SetIt(c, value, Cascade)
       IN  /\ it' = st.it
           /\ rev' = st.rev
           /\ lastRev' = st.lastRev
           /\ backward' = st.backward
           /\ last' = [Quiet("write", c, value) EXCEPT !.tr = st.tr,
                                                        !.overflow = st.overflow,
                                                        !.thrown = st.thrown]
    /\ UNCHANGED <<created, conv, itSup, onSup>>

\* A write to a control that is not done.
Write(c, value) == ~itSup[c].off /\ Written(c, value)

\* `c.done(reason)`.
Done(c, reason) ==
    /\ created[c]
    /\ itSup' = DoneFrom(c, reason, itSup)
    /\ onSup' = DoneFrom(c, reason, onSup)
    /\ last' = [Quiet("done", c, Undef) EXCEPT !.reason = reason]
    /\ UNCHANGED <<created, conv, it, rev, lastRev, backward>>

\* --------------------------------------------------------------- receivers

\* The receivers after an operation that delivers nothing to them.
Got(r, n, new, old) == [rcv[r] EXCEPT !.n = n, !.new = new, !.old = old]
Idle == [r \in Receivers |-> Got(r, 0, Never, Never)]

\* The receivers after a cascade with trace tr: each change stream delivers
\* the pairs it sent to its receivers still registered, `read` passing on
\* the new value only.
Delivered(tr) ==
    [r \in Receivers |->
        IF rcv[r].sub /\ ~rcv[r].sup.off /\ tr.sent[rcv[r].ctl] > 0
        THEN Got(r, tr.sent[rcv[r].ctl], tr.sentNew[rcv[r].ctl],
                 IF rcv[r].kind = "on" THEN tr.sentOld[rcv[r].ctl] ELSE Never)
        ELSE Idle[r]]

\* The receivers after the change streams took the supplies sup: a receiver
\* of a stream that ended is cut off with the stream's reason, and its
\* whenOff callback is called.
CutOff(sup) ==
    [r \in Receivers |->
        IF rcv[r].sub /\ ~rcv[r].sup.off /\ sup[rcv[r].ctl].off
        THEN [Idle[r] EXCEPT !.sup = sup[rcv[r].ctl], !.offCalls = @ + 1]
        ELSE Idle[r]]

\* `c.on(receiver)` or `c.read(receiver)` on a control that is not done;
\* `read` sends the current value at once.
Subscribe(r, c, kind) ==
    /\ created[c]
    /\ ~onSup[c].off
    /\ ~rcv[r].sub
    \* "r1" is the receiver registered first
    /\ r = "r1" \/ rcv["r1"].sub
    /\ rcv' = [Idle EXCEPT ![r] =
                  [sub |-> TRUE, ctl |-> c, kind |-> kind, sup |-> OpenSupply,
                   offCalls |-> 0,
                   n |-> IF kind = "read" THEN 1 ELSE 0,
                   new |-> IF kind = "read" THEN it[c] ELSE Never,
                   old |-> Never]]
    /\ last' = Quiet("subscribe", c, Undef)
    /\ UNCHANGED <<created, conv, it, rev, lastRev, backward, itSup, onSup>>

\* `c.it = value` on a control with receivers, done or not.
ReceivedWrite(c, value) ==
    /\ Written(c, value)
    /\ rcv' = Delivered(last'.tr)

\* `c.done(reason)` on a control with receivers.
ReceivedDone(c, reason) ==
    /\ Done(c, reason)
    /\ rcv' = CutOff(onSup')

\* ------------------------------------------------------------ form element

\* `eventSupplyOf(control).needs(form)`: the supply is cut off with the
\* reason of the required one, once that is cut off.
NeedsNothing(sup, required) == sup
Needs(sup, required) ==
    IF required.off THEN CutWith(sup, required.reason) ELSE sup

\* The form element with supply sup, its whenOff callback called if that
\* cut it off.
ElementWith(sup) ==
    IF elem.whenOff /\ ~elem.sup.off /\ sup.off
    THEN [elem EXCEPT !.sup = sup, !.offCalls = @ + 1, !.offReason = sup.reason]
    ELSE [elem EXCEPT !.sup = sup]

FormUnchanged == UNCHANGED <<created, conv, it, rev, lastRev, backward, itSup, onSup>>

\* `inFormElement(element, { form })`, the plain control being the form.
MakeElement ==
    /\ ~elem.made
    /\ elem' = [NoElement EXCEPT !.made = TRUE,
                                 !.sup = Needs(OpenSupply, onSup[Root])]
    /\ last' = Quiet("makeElement", Root, Undef)
    /\ FormUnchanged

\* `eventSupplyOf(control).whenOff(callback)` on the form element: a supply
\* already cut off calls back at once.
ElementWhenOff ==
    /\ elem.made
    /\ ~elem.whenOff
    /\ elem' = IF elem.sup.off
               THEN [elem EXCEPT !.whenOff = TRUE, !.offCalls = 1,
                                 !.offReason = elem.sup.reason]
               ELSE [elem EXCEPT !.whenOff = TRUE]
    /\ last' = Quiet("elementWhenOff", Root, Undef)
    /\ FormUnchanged

\* `control.done(reason)` on the form element.
ElementDone(reason) ==
    /\ elem.made
    /\ elem' = [ElementWith(CutWith(elem.sup, reason)) EXCEPT
                    !.own = elem.own \/ ~elem.sup.off]
    /\ last' = [Quiet("elementDone", Root, Undef) EXCEPT !.reason = reason]
    /\ FormUnchanged

\* `form.done(reason)`.
FormDone(reason) ==
    /\ Done(Root, reason)
    /\ elem' = IF elem.made THEN ElementWith(Needs(elem.sup, onSup'[Root])) ELSE elem

\* `form.it = value`.
FormWrite(value) ==
    /\ Written(Root, value)
    /\ UNCHANGED elem

\* `c.it = value` while the InData of the plain control has a receiver: the
\* data is sent again each time the plain control sends a new value.
DataWrite(c, value) ==
    /\ Write(c, value)
    /\ data' = IF last'.tr.upds[Root] > 0
               THEN DataSent("write", it'[Root], mode)
               ELSE DataQuiet("write")
    /\ UNCHANGED mode

\* The InMode of the plain control takes another mode, and the InData sends
\* again.
SetMode(m) ==
    /\ m # mode
    /\ mode' = m
    /\ data' = DataSent("mode", it[Root], m)

\* Conversion and lifecycle of a chain of controls.
Next ==
    \/ /\ \E c \in Converted, by \in ConverterSet : Convert(c, by)
       /\ UNCHANGED <<aspectVars, statusVars, dataVars, eventVars, domVars>>
    \/ /\ \E c \in Controls, v \in Vals : Write(c, v)
       /\ UNCHANGED <<aspectVars, statusVars, dataVars, eventVars, domVars>>
    \/ /\ \E c \in Controls, r \in Reasons : Done(c, r)
       /\ UNCHANGED <<aspectVars, statusVars, dataVars, eventVars, domVars>>

Spec == Init /\ [][Next]_vars

\* Aspect lookups on a plain control and a control converted from it,
\* between value writes.
AspectConverters ==
    {[set |-> by.set, get |-> by.get, applyAspect |-> b] :
        by \in {x \in ConverterSet : x.set[0] = 1}, b \in BOOLEAN}
\* Control 2 is never made here: only the other controls' choices vary.
AspectChoices == {ch \in Choices : ch[2] = "applyTo"}
NextAspect ==
    \/ /\ \E c \in {Root, 1}, k \in AspectKeys, ch \in AspectChoices :
             Lookup(c, k, ch)
       /\ UNCHANGED <<convVars, statusVars, dataVars, eventVars, domVars>>
    \/ /\ \E by \in AspectConverters : Convert(1, by)
       /\ UNCHANGED <<aspectVars, statusVars, dataVars, eventVars, domVars>>
    \/ /\ \E c \in Controls, v \in {0, 1} : Write(c, v)
       /\ UNCHANGED <<aspectVars, statusVars, dataVars, eventVars, domVars>>

SpecAspect == Init /\ [][NextAspect]_vars

\* Status flags of input elements, of their container and of a plain control.
NextStatus ==
    \/ /\ \E e \in Inputs, b \in BOOLEAN : FocusChange(e, b)
       /\ UNCHANGED <<convVars, aspectVars, dataVars, eventVars, domVars>>
    \/ /\ \E e \in Inputs, ev \in BOOLEAN : Input(e, ev)
       /\ UNCHANGED <<convVars, aspectVars, dataVars, eventVars, domVars>>
    \/ /\ \E c \in StatusControls, b \in BOOLEAN : MarkTouched(c, b)
       /\ UNCHANGED <<convVars, aspectVars, dataVars, eventVars, domVars>>
    \/ /\ \E c \in StatusControls, b \in BOOLEAN : MarkEdited(c, b)
       /\ UNCHANGED <<convVars, aspectVars, dataVars, eventVars, domVars>>
    \/ /\ \E cs \in SUBSET Members : SetChildren(cs)
       /\ UNCHANGED <<convVars, aspectVars, dataVars, eventVars, domVars>>

SpecStatus == Init /\ [][NextStatus]_vars

\* The end of controls with their aspects applied, between focus changes
\* and calls of markTouched.
NextEnd ==
    \/ /\ \E c \in StatusControls, r \in Reasons : DoneControl(c, r)
       /\ UNCHANGED <<convVars, aspectVars, dataVars, eventVars, domVars>>
    \/ /\ \E e \in Inputs, b \in BOOLEAN : FocusChange(e, b)
       /\ UNCHANGED <<convVars, aspectVars, dataVars, eventVars, domVars>>
    \/ /\ \E c \in StatusControls : MarkTouched(c, TRUE)
       /\ UNCHANGED <<convVars, aspectVars, dataVars, eventVars, domVars>>

SpecEnd == Init /\ [][NextEnd]_vars

\* The data of a plain control under changes of its value - written to it or
\* to a control converted from it - and of its input mode.
NextData ==
    \/ /\ \E by \in ConverterSet : Convert(1, by)
       /\ UNCHANGED <<aspectVars, statusVars, dataVars, eventVars, domVars>>
    \/ /\ \E c \in {Root, 1}, v \in Vals : DataWrite(c, v)
       /\ UNCHANGED <<aspectVars, statusVars, eventVars, domVars>>
    \/ /\ \E m \in Modes : SetMode(m)
       /\ UNCHANGED <<convVars, aspectVars, statusVars, eventVars, domVars>>

SpecData == Init /\ [][NextData]_vars

\* Receivers of the change streams of a plain control and of a control
\* converted from it, by converters that are inverses or not: an `on`
\* receiver, then a second receiver of `on` or `read`.
EventConverters == {by \in ConverterSet : by.set[MaxVal] # MaxVal}
NextEvents ==
    \/ /\ \E by \in EventConverters : Convert(1, by)
       /\ rcv' = Idle
       /\ UNCHANGED <<aspectVars, statusVars, dataVars, elem, domVars>>
    \/ /\ \E r \in Receivers, c \in {Root, 1}, k \in Kinds :
              (r = "r1" => k = "on") /\ Subscribe(r, c, k)
       /\ UNCHANGED <<aspectVars, statusVars, dataVars, elem, domVars>>
    \/ /\ \E c \in {Root, 1}, v \in 0 .. MaxVal : ReceivedWrite(c, v)
       /\ UNCHANGED <<aspectVars, statusVars, dataVars, elem, domVars>>
    \/ /\ \E c \in {Root, 1}, r \in Reasons : ReceivedDone(c, r)
       /\ UNCHANGED <<aspectVars, statusVars, dataVars, elem, domVars>>

SpecEvents == Init /\ [][NextEvents]_vars

\* A form and its form element control.
NextForm ==
    \/ /\ MakeElement
       /\ UNCHANGED <<aspectVars, statusVars, dataVars, rcv, domVars>>
    \/ /\ ElementWhenOff
       /\ UNCHANGED <<aspectVars, statusVars, dataVars, rcv, domVars>>
    \/ /\ \E r \in Reasons : ElementDone(r)
       /\ UNCHANGED <<aspectVars, statusVars, dataVars, rcv, domVars>>
    \/ /\ \E r \in Reasons : FormDone(r)
       /\ UNCHANGED <<aspectVars, statusVars, dataVars, rcv, domVars>>
    \/ /\ \E v \in Vals : FormWrite(v)
       /\ UNCHANGED <<aspectVars, statusVars, dataVars, rcv, domVars>>

SpecForm == Init /\ [][NextForm]_vars

\* Conversions with converters that throw. `src.convert(by)` with a `set`
\* that throws on the source's value throws itself and makes no control.
NextThrow ==
    \/ /\ \E c \in Converted, by \in ThrowingConverters :
              by.set[it[SrcOf(c)]] # Throws /\ Convert(c, by)
       /\ UNCHANGED <<aspectVars, statusVars, dataVars, eventVars, domVars>>
    \/ /\ \E c \in Controls, v \in Vals : Write(c, v)
       /\ UNCHANGED <<aspectVars, statusVars, dataVars, eventVars, domVars>>

SpecThrow == Init /\ [][NextThrow]_vars

\* Focus and blur events of two input elements of one document, and writes
\* to their InFocus.
NextFocus ==
    \/ /\ \E e \in Inputs : MakeFocus(e)
       /\ UNCHANGED <<convVars, aspectVars, dataVars, eventVars>>
    \/ /\ \E e \in Inputs : UserFocus(e)
       /\ UNCHANGED <<convVars, aspectVars, dataVars, eventVars>>
    \/ /\ \E e \in Inputs : UserBlur(e)
       /\ UNCHANGED <<convVars, aspectVars, dataVars, eventVars>>
    \/ /\ \E e \in Inputs, b \in BOOLEAN, ok \in BOOLEAN : FocusWrite(e, b, ok)
       /\ UNCHANGED <<convVars, aspectVars, dataVars, eventVars>>

SpecFocus == Init /\ [][NextFocus]_vars

\* ------------------------------------------------------- conversion claims

\* The operation was a write by a user to the source of converted control c
\* that changed the source's value.
SourceWritten(c) ==
    /\ created[c]
    /\ last.op = "write"
    /\ last.ctl = SrcOf(c)
    /\ it[SrcOf(c)] # last.pre[SrcOf(c)]

\* The change stream of the source of c sent an update that c did not write
\* back itself: the write was to the source or to a control upstream of it.
SourceUpdated(c) ==
    /\ created[c]
    /\ last.op = "write"
    /\ UpstreamOf(last.ctl, SrcOf(c))
    /\ last.tr.sent[SrcOf(c)] = 1

\* The operation was a write by a user to converted control c of a value
\* other than the one it held.
ConvertedWritten(c) ==
    /\ last.op = "write"
    /\ last.ctl = c
    /\ last.arg # last.pre[c]

\* C3: an external write to the source updates the converted control's
\* stored value exactly once, and the converted control neither calls get
\* nor the source's setter in response.
C3_SourceWriteUpdatesOnce ==
    \A c \in Converted :
        SourceWritten(c) =>
            /\ last.tr.upds[c] = 1
            /\ last.tr.gets[c] = 0
            /\ last.tr.srcw[c] = 0

\* C4: an external write of a new value w to a converted control calls
\* get(w) once, writes get(w) to the source once, calls set not at all, and
\* leaves the converted control's value w.
C4_ConvertedWriteGoesBackOnce ==
    \A c \in Converted :
        ConvertedWritten(c) =>
            /\ last.tr.gets[c] = 1
            /\ last.tr.srcw[c] = 1
            /\ last.tr.srcArg[c] = conv[c].get[last.arg]
            /\ last.tr.sets[c] = 0
            /\ it[c] = last.arg
            /\ backward[c] = Undef

\* A write to a converted control that changed its source, under converters
\* for which set(get(w)) differs from w.
C4_Witness ==
    \E c \in Converted :
        /\ ConvertedWritten(c)
        /\ it[SrcOf(c)] # last.pre[SrcOf(c)]
        /\ conv[c].set[it[SrcOf(c)]] # it[c]

\* C5: the converted value is set(source.it) right after construction, and
\* after every source update to a value v the converted control did not write
\* back - whatever v is, undefined included - it is set(v) under a new
\* revision.
C5_ForwardConversion ==
    \A c \in Converted :
        /\ (created[c] /\ last.op = "convert" /\ last.ctl = c) =>
               (it[c] = conv[c].set[it[SrcOf(c)]] /\ rev[c] = 0)
        /\ SourceUpdated(c) =>
               /\ it[c] = conv[c].set[it[SrcOf(c)]]
               /\ rev[c] = last.preRev[c] + 1

\* C6: when a control is closed with reason R, every control converted from
\* it, directly or through a chain, is closed, and the change stream of each
\* one still open at that moment ends with R; a control converted from a
\* closed source is closed with the source's reason.
C6_DoneReachesConverted ==
    \A s \in Controls, c \in Converted :
        (created[c] /\ c # s /\ UpstreamOf(s, c)) =>
            /\ (onSup[s].off => onSup[c].off /\ itSup[c].off)
            /\ (last.op = "done" /\ last.ctl = s /\ ~last.preOff[c]) =>
                   onSup[c] = CutSupply(last.reason)
            /\ (last.op = "convert" /\ last.ctl = c /\ onSup[SrcOf(c)].off) =>
                   onSup[c] = onSup[SrcOf(c)]

\* The plain control was closed while both converted controls were open.
C6_Witness ==
    /\ last.op = "done"
    /\ last.ctl = Root
    /\ \A c \in Converted : created[c] /\ ~last.preOff[c] /\ onSup[c].off

\* C8: done(reason) on a converted control ends its own change stream and
\* leaves every control upstream of it as it was; an open source of a closed
\* converted control still takes a write and sends it to its subscribers.
C8_DoneStaysDownstream ==
    \A c \in Converted :
        created[c] =>
            /\ (last.op = "done" /\ last.ctl = c) =>
                   /\ onSup[c].off
                   /\ \A s \in Controls :
                          (s # c /\ UpstreamOf(s, c)) =>
                              /\ onSup[s].off = last.preOff[s]
                              /\ itSup[s].off = last.preOff[s]
            /\ (onSup[c].off /\ last.op = "write" /\ last.ctl = SrcOf(c)
                    /\ last.arg # last.pre[SrcOf(c)]) =>
                   /\ it[SrcOf(c)] = last.arg
                   /\ last.tr.sent[SrcOf(c)] = 1

\* A converted control was closed while its source was open, and the source
\* then took a write.
C8_Witness ==
    \E c \in Converted :
        /\ created[c]
        /\ onSup[c].off
        /\ ~onSup[SrcOf(c)].off
        /\ last.op = "write"
        /\ last.ctl = SrcOf(c)
        /\ it[SrcOf(c)] # last.pre[SrcOf(c)]

\* ----------------------------------------------------------- aspect claims

\* C1: every c.aspect(k) returns the instance the first c.aspect(k) on that
\* control returned.
C1_SameInstance ==
    got.key \in AspectKeys => got.instance = firstGot[got.ctl][got.key].instance

\* A key was looked up again on the converted control, after a value write
\* in between, and the call returned an instance.
C1_Witness ==
    /\ last.op = "write"
    /\ got.key \in AspectKeys
    /\ got.ctl = 1
    /\ got.instance # NullInstance
    /\ applyCount[1][got.key] = 1
    /\ \E k \in AspectKeys : k # got.key /\ aspects[1][k].has

\* C2: the application step runs at most once for each control and key, also
\* when the instance it yields is absent.
C2_AppliedOnce ==
    \A c \in Controls, k \in AspectKeys :
        /\ applyCount[c][k] <= 1
        /\ aspects[c][k].has <=> applyCount[c][k] = 1

\* An absent InFocus is cached on both controls and was just looked up.
C2_Witness ==
    /\ got.key = "InFocus"
    /\ got.instance = NullInstance
    /\ \A c \in {Root, 1} : aspects[c]["InFocus"] = Entry([instance |-> NullInstance])
    /\ \A c \in {Root, 1} : applyCount[c]["InFocus"] = 1

\* ----------------------------------------------------------- status claims

\* C7: once a control is closed with reason R, each aspect applied to it has
\* ended with R, and none of them sends anything afterwards.
C7_AspectsEndWithControl ==
    \A c \in StatusControls :
        ctlSup[c].off =>
            /\ dataSup[c] = ctlSup[c]
            /\ c \in Inputs => focusSup[c] = ctlSup[c]
            /\ flagsSup[c] = ctlSup[c]
            /\ ~(lastS.ctl = c /\ lastS.op # "done" /\ lastS.wrote)

\* C9: in every flags snapshot, edited implies touched.
C9_EditedImpliesTouched ==
    \A c \in StatusControls : flags[c].edited => flags[c].touched

\* An input element that never had focus was edited, and so was its
\* container.
C9_Witness ==
    \E e \in Inputs :
        /\ e \in children
        /\ lastS.op = "input"
        /\ lastS.ctl = e
        /\ ~focus[e]
        /\ flags[e].edited
        /\ flags[Box].edited

\* C10: in every flags snapshot, hasFocus implies touched.
C10_FocusImpliesTouched ==
    \A c \in StatusControls : flags[c].hasFocus => flags[c].touched

\* markTouched(false) was called on a focused input element that was edited:
\* it is still touched, and no longer edited.
C10_Witness ==
    \E e \in Inputs :
        /\ lastS.op = "markTouched"
        /\ lastS.ctl = e
        /\ lastS.wrote
        /\ flags[e].hasFocus
        /\ ~flags[e].edited
        /\ input[e]

\* The operation changed the container's snapshot, or it wrote the flags of
\* a control of the snapshot.
ChildrenChanged == lastS.op = "children"
ChildStatusChanged == lastS.ctl \in children /\ lastS.op # "children" /\ lastS.wrote

\* C11: after every change of the container's snapshot and every status
\* change of a control of the snapshot, the container's flags are the fold
\* over the controls of the current snapshot only: hasFocus and edited are
\* the OR of theirs, touched the OR of their touched, hasFocus or edited.
C11_FoldOverCurrentChildren ==
    (ChildrenChanged \/ ChildStatusChanged) =>
        /\ flags[Box].hasFocus <=> \E c \in children : flags[c].hasFocus
        /\ flags[Box].edited <=> \E c \in children : flags[c].edited
        /\ flags[Box].touched <=>
               \E c \in children :
                   flags[c].touched \/ flags[c].hasFocus \/ flags[c].edited

\* The snapshot held an untouched control and one touched and edited; the
\* latter was replaced by a focused control that was never edited, and the
\* container is touched, focused and not edited.
C11_Witness ==
    /\ ChildrenChanged
    /\ lastS.was = {"in1", Plain}
    /\ children = {"in1", "in2"}
    /\ flags["in1"] = defaultFlags
    /\ flags["in2"] = [hasFocus |-> TRUE, touched |-> TRUE, edited |-> FALSE]
    /\ flags[Plain] = [hasFocus |-> FALSE, touched |-> TRUE, edited |-> TRUE]
    /\ flags[Box] = [hasFocus |-> TRUE, touched |-> TRUE, edited |-> FALSE]

\* C12: in every state, the container's flags have touched (edited) when
\* the flags of some control of its snapshot have - also after markTouched
\* or markEdited on the container's own status.
C12_ContainerNotBelowChildren ==
    \A c \in children :
        /\ flags[c].touched => flags[Box].touched
        /\ flags[c].edited => flags[Box].edited

\* C13: markTouched(false) on touched flags leaves hasFocus, makes touched
\* equal to hasFocus and edited false; markTouched(true) on untouched flags
\* sets touched only; every other call leaves the flags as they were.
C13_MarkTouchedResult ==
    lastS.op = "markTouched" =>
        LET p == lastS.pre
        IN  flags[lastS.ctl] =
                IF ~lastS.arg /\ p.touched
                THEN [hasFocus |-> p.hasFocus, touched |-> p.hasFocus, edited |-> FALSE]
                ELSE IF lastS.arg /\ ~p.touched
                     THEN [hasFocus |-> p.hasFocus, touched |-> TRUE, edited |-> p.edited]
                     ELSE p

\* markTouched(false) was called on a control that was edited and not
\* focused: it is neither touched nor edited any more.
C13_Witness ==
    /\ lastS.op = "markTouched"
    /\ ~lastS.arg
    /\ lastS.pre = [hasFocus |-> FALSE, touched |-> TRUE, edited |-> TRUE]
    /\ flags[lastS.ctl] = defaultFlags

\* C14: markEdited(true) on flags not edited sets edited and touched and
\* leaves hasFocus; markEdited(false) on edited flags clears edited only;
\* a call that asks for what edited already is writes nothing.
C14_MarkEditedResult ==
    lastS.op = "markEdited" =>
        LET p == lastS.pre
        IN  /\ (lastS.arg /\ ~p.edited) =>
                   flags[lastS.ctl] =
                       [hasFocus |-> p.hasFocus, touched |-> TRUE, edited |-> TRUE]
            /\ (~lastS.arg /\ p.edited) =>
                   flags[lastS.ctl] =
                       [hasFocus |-> p.hasFocus, touched |-> p.touched, edited |-> FALSE]
            /\ (lastS.arg = p.edited) => (~lastS.wrote /\ flags[lastS.ctl] = p)

\* markEdited(false) was called on an edited control without focus: it is
\* still touched, and no longer edited.
C14_Witness ==
    /\ lastS.op = "markEdited"
    /\ ~lastS.arg
    /\ lastS.wrote
    /\ lastS.pre = [hasFocus |-> FALSE, touched |-> TRUE, edited |-> TRUE]
    /\ flags[lastS.ctl] = [hasFocus |-> FALSE, touched |-> TRUE, edited |-> FALSE]

\* C15: of two calls in a row of the same mutator with the same argument on
\* one status, the second writes no flags.
C15_SecondCallWritesNothing ==
    (lastS.op \in {"markTouched", "markEdited"} /\ lastS.again) => ~lastS.wrote

\* ------------------------------------------------------------- data claims

\* C16: after every change of the value or the mode of a control, the data
\* its InData sent last is the control's value when the mode has data, and
\* undefined otherwise; a mode without data followed by one with data, the
\* value left alone, sends undefined and then the value.
C16_DataFollowsValueAndMode ==
    /\ data.op \in {"write", "mode"} =>
           data.it = IF hasData(mode) THEN it[Root] ELSE Undef
    /\ (data.op = "mode" /\ data.opBefore = "mode"
            /\ ~hasData(data.modeBefore) /\ hasData(mode)) =>
           (data.n = 1 /\ data.before = Undef /\ data.it = it[Root])

\* The mode went to "off" and back to "on" while the control held a value
\* other than its first one.
C16_Witness ==
    /\ data.op = "mode"
    /\ data.opBefore = "mode"
    /\ data.modeBefore = "off"
    /\ mode = "on"
    /\ it[Root] > 0
    /\ data.before = Undef
    /\ data.it = it[Root]

\* ----------------------------------------------------------- event claims

\* The receivers registered with control c and not cut off before the last
\* operation.
Listening(c) ==
    {r \in Receivers : rcv[r].sub /\ rcv[r].ctl = c /\ ~last.preOff[c]}

\* C17: a write that changes the value of a control delivers one
\* (newValue, oldValue) pair to each `on` receiver of that control, the new
\* value and the value held just before the write; a `read` receiver gets
\* the current value when it is registered and each new value after that.
\* A write that leaves the value as it was delivers nothing.
C17_OnePairPerChange ==
    /\ last.op = "write" =>
           \A c \in {Root, 1} : \A r \in Listening(c) :
               IF it[c] # last.pre[c]
               THEN /\ rcv[r].n = 1
                    /\ rcv[r].new = it[c]
                    /\ rcv[r].kind = "on" => rcv[r].old = last.pre[c]
               ELSE rcv[r].n = 0
    /\ last.op = "subscribe" =>
           \A r \in Listening(last.ctl) :
               (rcv[r].kind = "read" /\ rcv[r].n = 1) => rcv[r].new = it[last.ctl]

\* One write changed the values of the plain control and of the converted
\* control, to different values, with an `on` receiver at each.
C17_Witness ==
    /\ last.op = "write"
    /\ it[Root] # last.pre[Root]
    /\ it[1] # last.pre[1]
    /\ it[1] # it[Root]
    /\ \A r \in Receivers : rcv[r].sub /\ rcv[r].kind = "on" /\ rcv[r].n = 1
    /\ rcv["r1"].ctl # rcv["r2"].ctl

\* C18: once a control is done with a reason, every supply got before from
\* its `on` or `read` is off with that reason, its whenOff callback was
\* called once, and a later write delivers nothing to its receiver.
C18_DoneCutsReceivers ==
    \A r \in Receivers :
        (rcv[r].sub /\ onSup[rcv[r].ctl].off) =>
            /\ rcv[r].sup = onSup[rcv[r].ctl]
            /\ rcv[r].offCalls = 1
            /\ rcv[r].n = 0
            /\ (last.op = "done" /\ last.ctl = rcv[r].ctl /\ ~last.preOff[last.ctl]) =>
                   rcv[r].sup.reason = last.reason

\* A control with an `on` and a `read` receiver was done, and then written
\* a new value.
C18_Witness ==
    /\ last.op = "write"
    /\ it[last.ctl] # last.pre[last.ctl]
    /\ onSup[last.ctl].off
    /\ \A r \in Receivers : rcv[r].sub /\ rcv[r].ctl = last.ctl
    /\ rcv["r1"].kind # rcv["r2"].kind

\* C19: with the form done for a reason, the supply of its form element
\* control is cut off, with that reason unless its own done had cut it off
\* before, and a whenOff callback on it, registered before or after, is
\* called once with the reason; done on the form element leaves the form as
\* it was.
C19_ElementNeedsForm ==
    /\ (elem.made /\ onSup[Root].off) =>
           /\ elem.sup.off
           /\ ~elem.own => elem.sup.reason = onSup[Root].reason
    /\ (elem.whenOff /\ elem.sup.off) =>
           (elem.offCalls = 1 /\ elem.offReason = elem.sup.reason)
    /\ last.op = "elementDone" =>
           (onSup[Root].off = last.preOff[Root] /\ itSup[Root].off = last.preOff[Root])

\* The form was done while its form element was open, with a whenOff
\* callback registered.
C19_Witness ==
    /\ last.op = "done"
    /\ last.ctl = Root
    /\ ~last.preOff[Root]
    /\ elem.made
    /\ ~elem.own
    /\ elem.whenOff
    /\ elem.offCalls = 1
    /\ elem.offReason = last.reason

\* ------------------------------------------------------ exception claims

\* C20: when set, get or the write to the source throws, the exception
\* reaches the caller of the write - nothing runs after it - and the
\* `backward` slot of every converted control is empty afterwards; the next
\* write that does not throw is converted: forward by set when it changes
\* the value of the source, backward by get when it changes the value of
\* the converted control.
C20_SlotReleasedOnThrow ==
    /\ last.tr.throws > 0 => (last.thrown /\ last.tr.throws = 1)
    /\ \A c \in Converted : backward[c] = Undef
    /\ (last.op = "write" /\ last.afterThrow /\ ~last.thrown) =>
           \A c \in Converted :
               (created[c] /\ ~itSup[c].off) =>
                   /\ (last.ctl = SrcOf(c) /\ it[SrcOf(c)] # last.pre[SrcOf(c)]) =>
                          (last.tr.sets[c] = 1 /\ it[c] = conv[c].set[it[SrcOf(c)]])
                   /\ (last.ctl = c /\ last.arg # last.pre[c]) =>
                          (last.tr.gets[c] = 1
                               /\ last.tr.srcArg[c] = conv[c].get[last.arg])

\* ------------------------------------------------------ more status claims

\* C21: the status of a control that is neither an input element nor a
\* container has the default flags in every state, whatever markTouched and
\* markEdited calls it took.
C21_PlainControlKeepsDefaultFlags == flags[Plain] = defaultFlags

\* ---- aspect resolution claims ----

\* The controls and keys the last lookup had to apply.
Missed(c, k) == got.tr[c][k].hook > 0

\* C22: when a lookup misses the cache, `_applyAspect` is asked first; the
\* key's `applyTo` is called exactly when `_applyAspect` returned nothing,
\* and after it; the result is in the cache and is what the lookup returns.
C22_HookThenApplyTo ==
    \A c \in Controls, k \in AspectKeys :
        Missed(c, k) =>
            LET t == got.tr[c][k]
            IN  /\ (t.applyTo > 0) <=> ~t.yield
                /\ t.applyTo > 0 => t.hook < t.applyTo
                /\ c = Root => ~t.yield
                /\ aspects[c][k].has
                /\ aspects[c][k].instance = t.stored
                /\ (c = got.ctl /\ k = got.key) => got.instance = t.stored

\* One lookup on the converted control where its `_applyAspect` returned the
\* aspect and the source's did not, so that `applyTo` ran on the source only.
C22_Witness ==
    /\ got.ctl = 1
    /\ Missed(1, got.key) /\ Missed(Root, got.key)
    /\ got.tr[1][got.key].yield /\ got.tr[1][got.key].applyTo = 0
    /\ got.tr[Root][got.key].applyTo > 0

\* C23: a converted control resolves a key by the first of: the conversion's
\* `applyAspect`, asked only if supplied; the key applied to the source,
\* through the source's cache, and converted; the key's `applyTo`. A later
\* one is called only after every earlier one returned nothing.
C23_ResolutionOrder ==
    \A c \in Converted, k \in AspectKeys :
        Missed(c, k) =>
            LET t == got.tr[c][k]
            IN  /\ (t.custom > 0) <=> Supplied(c)
                /\ t.custom > 0 => t.hook < t.custom
                /\ t.convert > 0 => t.custom < t.convert /\ t.hook < t.convert
                /\ t.applyTo > 0 => t.convert > 0 /\ t.convert < t.applyTo
                /\ t.by \in {"custom", "convert", "applyTo"}
                /\ t.by = "custom" => t.custom > 0 /\ t.convert = 0 /\ t.applyTo = 0
                /\ t.by = "convert" => t.convert > 0 /\ t.applyTo = 0
                /\ t.by = "applyTo" => t.applyTo > 0
                /\ t.convert > 0 => aspects[SrcOf(c)][k].has
                /\ t.convert > 0 => applyCount[SrcOf(c)][k] = 1

\* The conversion has an `applyAspect` that returned nothing, and the source's
\* applied aspect converted.
C23_Witness ==
    /\ got.ctl = 1
    /\ Supplied(1)
    /\ got.tr[1][got.key].by = "convert"
    /\ got.tr[1][got.key].custom > 0
    /\ got.tr[1][got.key].custom < got.tr[1][got.key].convert

\* ---- status claims over steps ----

\* The step is a 'blur' event of element e, or a 'focus' event of it.
Blurs(e) == focus[e] /\ ~focus'[e]
Focuses(e) == ~focus[e] /\ focus'[e]
\* The step is a new input of element e with an event (an edit by the user).
Edits(e) == lastS'.op = "input" /\ lastS'.ctl = e /\ input'[e]
\* The step is `markTouched(b)` or `markEdited(b)` on element e.
Marks(e, op, b) == lastS'.op = op /\ lastS'.ctl = e /\ lastS'.arg = b

\* C24: touched and edited of an element are monotone: a 'blur' event changes
\* neither, only markTouched(false) and markEdited(false) turn one off, and a
\* flag that is off stays off until the element gains focus, the user edits
\* it, or it is marked.
C24_FlagsMonotone ==
    [][\A e \in Inputs :
          /\ Blurs(e) => /\ flags'[e].touched = flags[e].touched
                          /\ flags'[e].edited = flags[e].edited
          /\ (flags[e].touched /\ ~flags'[e].touched)
                => Marks(e, "markTouched", FALSE)
          /\ (flags[e].edited /\ ~flags'[e].edited)
                => Marks(e, "markTouched", FALSE) \/ Marks(e, "markEdited", FALSE)
          /\ (~flags[e].touched /\ flags'[e].touched)
                => \/ Focuses(e) \/ Edits(e)
                   \/ Marks(e, "markTouched", TRUE) \/ Marks(e, "markEdited", TRUE)
          /\ (~flags[e].edited /\ flags'[e].edited)
                => Focuses(e) \/ Edits(e) \/ Marks(e, "markEdited", TRUE)]_vars

\* ---- more conversion claims ----

\* The converted control c saw the last write to its source as set(v), once.
ForwardSeen(c) ==
    /\ last.tr.sets[c] = 1
    /\ last.tr.upds[c] = 1
    /\ it[c] = conv[c].set[last.arg]

\* The source of c saw the last write to c as get(w), once.
BackwardSeen(c) ==
    /\ last.tr.gets[c] = 1
    /\ last.tr.srcw[c] = 1
    /\ last.tr.srcArg[c] = conv[c].get[last.arg]

\* C25: of two successive writes to one side of a conversion, the other side
\* sees the conversion of the first, then the conversion of the second, each
\* once; and every write ends with nothing in flight.
C25_WritesSeenInOrder ==
    [][\A c \in Converted :
          /\ (SourceWritten(c) /\ SourceWritten(c)' /\ ~itSup'[c].off)
                => ForwardSeen(c) /\ ForwardSeen(c)'
          /\ (ConvertedWritten(c) /\ ConvertedWritten(c)')
                => BackwardSeen(c) /\ BackwardSeen(c)'
          /\ ~last'.overflow
          /\ backward'[c] = Undef]_vars

\* The step is a write that changed the stored pair of converted control c
\* as many times as its trace counts.
RevRaisedPerChange(c) ==
    /\ last'.tr.upds[c] \in {0, 1}
    /\ rev'[c] = rev[c] + last'.tr.upds[c]

ForwardToSame(c) ==
    /\ created[c]
    /\ last.op = "write"
    /\ last.ctl # c
    /\ last.tr.sets[c] = 1
    /\ conv[c].set[it[SrcOf(c)]] = last.pre[c]

\* C28: the change stream of a converted control sends (newValue, oldValue)
\* only for a write that changed its value, once; a source update whose
\* set(v) is the value it holds raises the revision and sends nothing.
C28_SendsOnlyChanges ==
    \A c \in Converted :
        /\ (created[c] /\ last.op = "write" /\ last.tr.sent[c] > 0) =>
               /\ it[c] # last.pre[c]
               /\ last.tr.sent[c] = 1
               /\ last.tr.sentNew[c] = it[c]
               /\ last.tr.sentOld[c] = last.pre[c]
        /\ ForwardToSame(c) =>
               /\ it[c] = last.pre[c]
               /\ rev[c] = last.preRev[c] + 1
               /\ last.tr.sent[c] = 0

\* A source update of an open converted control to a value with the same
\* conversion as the one before.
C28_Witness ==
    \E c \in Converted :
        /\ ForwardToSame(c)
        /\ ~onSup[c].off
        /\ it[SrcOf(c)] # last.pre[SrcOf(c)]
        /\ rev[c] = last.preRev[c] + 1

\* The last operation was a write to converted control c of the value it
\* held.
SameWritten(c) ==
    /\ last.op = "write"
    /\ last.ctl = c
    /\ last.arg = last.pre[c]

\* C29: a write to a converted control of the value it holds changes no
\* value, no revision and no slot, calls neither get nor set, and sends
\* nothing on any change stream.
C29_SameValueWriteIsNoOp ==
    \A c \in Converted :
        SameWritten(c) =>
            /\ it = last.pre
            /\ rev = last.preRev
            /\ lastRev = rev
            /\ \A k \in Converted : backward[k] = Undef
            /\ last.tr = NoTrace

\* Such a write to a control that had taken changes before.
C29_Witness ==
    \E c \in Converted :
        /\ SameWritten(c)
        /\ rev[c] > 0
        /\ it[c] # conv[c].set[it[SrcOf(c)]]

\* ------------------------------------------------------------ focus claims

\* C27: an InFocus begins with whether its element has the focus; after a
\* 'focus' event, a 'blur' event or a write to it, its value is the one of
\* that event or write, and the value of the other InFocus is false if its
\* element got a 'blur' event and as before if not;
\* a write that changes the value calls `element.focus()` once for true and
\* `element.blur()` once for false, and the event the call raises runs the
\* receiver no second time; a write of the value held calls nothing.
C27_FocusFollowsLast ==
    lastF.op \in {"make", "focus", "blur", "write"} =>
        /\ made[lastF.ctl] => focus[lastF.ctl] = lastF.arg
        /\ \A o \in Inputs \ {lastF.ctl} :
               made[o] =>
                   focus[o] = IF lastF.event[o] = "blur" THEN FALSE ELSE lastF.pre[o]
        /\ ~lastF.overflow
        /\ \A e \in Inputs : lastF.runs[e] <= 1 /\ lastF.recurrent[e] = 0
        /\ (lastF.op = "write" /\ lastF.arg # lastF.pre[lastF.ctl]) =>
               /\ lastF.runs[lastF.ctl] = 1
               /\ lastF.focusCalls[lastF.ctl] = IF lastF.arg THEN 1 ELSE 0
               /\ lastF.blurCalls[lastF.ctl] = IF lastF.arg THEN 0 ELSE 1
        /\ (lastF.op = "write" /\ lastF.arg = lastF.pre[lastF.ctl]) =>
               /\ lastF.runs = NoCalls
               /\ lastF.focusCalls = NoCalls
               /\ lastF.blurCalls = NoCalls

\* A write of true to the InFocus of one element while the other element had
\* the focus: the call of `element.focus()` raised a 'blur' event of the other
\* element and a 'focus' event of this one.
C27_Witness ==
    /\ lastF.op = "write" /\ lastF.arg
    /\ lastF.wasActive \in Inputs \ {lastF.ctl}
    /\ made[lastF.wasActive]
    /\ lastF.focusCalls[lastF.ctl] = 1
    /\ lastF.blurCalls[lastF.wasActive] = 1
    /\ lastF.pre[lastF.wasActive]
    /\ lastF.event[lastF.ctl] = "focus"
    /\ lastF.event[lastF.wasActive] = "blur"
    /\ active = lastF.ctl

====
